---- MODULE Spec2Model ----
(***************************************************************************)
(* A model of the wine-catalogue web application src/app.py: the record    *)
(* store (table "vine"), the two asset directories ("pdfs", "bottles"),    *)
(* and one action per route.  A Python string is a sequence of one-        *)
(* character strings, so that os.path.splitext, str.lower, str.strip and   *)
(* json.loads are computed character by character.  A Cyrillic letter of   *)
(* the source is written as the token "cy_<latin transliteration>"         *)
(* (upper case for a capital letter), since a module is ASCII text.        *)
(***************************************************************************)
EXTENDS Integers, Sequences, FiniteSets, TLC

VARIABLES
    VERCEL,        \* os.getenv("VERCEL") is set: the store is opened mode=ro
    db_reachable,  \* the sqlite file can be opened (Vine.query does not raise)
    vines,         \* the rows of table vine, in rowid order
    pdfs_dir,      \* <app.root_path>/pdfs: [exists, listing]
    bottles_dir,   \* <app.root_path>/bottles: [exists, listing]
    response       \* the response to the last request: [op, arg, code, body]

vars == <<VERCEL, db_reachable, vines, pdfs_dir, bottles_dir, response>>

(***************************************************************************)
(* Bounds of the model.                                                    *)
(***************************************************************************)
\* rows the store holds before the first request
MaxInitVines == 1
\* rows the store may grow to (each run of the seed routine adds two)
MaxVines == 2
\* entries of the bottle directory, where a start state varies it
MaxBottleEntries == 3
\* entries of the description directory, where a start state varies it
MaxPdfEntries == 2

(***************************************************************************)
(* Characters and strings.                                                 *)
(***************************************************************************)
\* The characters of the model in code-point order.
CharOrder ==
    <<" ", "\"", "'", ",", "-", ".", "/", "0", "7", ":", "A", "B", "C",
      "D", "E", "F", "G", "H", "I", "J", "K", "L", "M", "N", "O", "P", "Q",
      "R", "S", "T", "U", "V", "W", "X", "Y", "Z", "[", "]", "_", "a", "b",
      "c", "d", "e", "f", "g", "h", "i", "j", "k", "l", "m", "n", "o", "p",
      "q", "r", "s", "t", "u", "v", "w", "x", "y", "z", "cy_B", "cy_V",
      "cy_E", "cy_K", "cy_O", "cy_S", "cy_T", "cy_a", "cy_b", "cy_v",
      "cy_d", "cy_e", "cy_zh", "cy_z", "cy_i", "cy_k", "cy_n", "cy_o",
      "cy_p", "cy_r", "cy_s", "cy_t", "cy_u", "cy_soft", "emdash">>

\* ord(c), up to an order-preserving renumbering ("emdash" is U+2014, the
\* report's value for a directory that does not exist).
OrdTable ==
    [c \in {CharOrder[i] : i \in 1..Len(CharOrder)} |->
        CHOOSE i \in 1..Len(CharOrder) : CharOrder[i] = c]
Ord(c) == OrdTable[c]

\* Upper-case characters and their lower-case forms (str.lower, one character).
UpperChars ==
    <<"A", "B", "C", "D", "E", "F", "G", "H", "I", "J", "K", "L", "M", "N",
      "O", "P", "Q", "R", "S", "T", "U", "V", "W", "X", "Y", "Z", "cy_B",
      "cy_V", "cy_E", "cy_K", "cy_O", "cy_S", "cy_T">>
LowerChars ==
    <<"a", "b", "c", "d", "e", "f", "g", "h", "i", "j", "k", "l", "m", "n",
      "o", "p", "q", "r", "s", "t", "u", "v", "w", "x", "y", "z", "cy_b",
      "cy_v", "cy_e", "cy_k", "cy_o", "cy_s", "cy_t">>

LowerTable ==
    [c \in {UpperChars[i] : i \in 1..Len(UpperChars)} |->
        LowerChars[CHOOSE i \in 1..Len(UpperChars) : UpperChars[i] = c]]
LowerChar(c) == IF c \in DOMAIN LowerTable THEN LowerTable[c] ELSE c

\* str.lower()
lower(s) == [i \in 1..Len(s) |-> LowerChar(s[i])]

\* Python's None, a value no string equals.
None == <<"<None>">>

\* bool(x) for x a string or None
Truthy(s) == s # None /\ s # <<>>

\* x or d
OrElse(s, d) == IF Truthy(s) THEN s ELSE d

IsSpace(c) == c = " "

\* str.strip()
strip(s) ==
    IF \A i \in 1..Len(s) : IsSpace(s[i]) THEN <<>>
    ELSE LET first == CHOOSE i \in 1..Len(s) :
                        ~IsSpace(s[i]) /\ \A j \in 1..(i - 1) : IsSpace(s[j])
             last == CHOOSE i \in 1..Len(s) :
                        ~IsSpace(s[i]) /\ \A j \in (i + 1)..Len(s) : IsSpace(s[j])
         IN SubSeq(s, first, last)

\* str.endswith(suffix)
endswith(s, suffix) ==
    /\ Len(suffix) <= Len(s)
    /\ SubSeq(s, Len(s) - Len(suffix) + 1, Len(s)) = suffix

\* str.rfind(c) as a 1-based index, 0 when c does not occur
rfind(s, c) ==
    IF \E i \in 1..Len(s) : s[i] = c
    THEN CHOOSE i \in 1..Len(s) : s[i] = c /\ \A j \in (i + 1)..Len(s) : s[j] # c
    ELSE 0

\* os.path.splitext (posixpath): the extension starts at the last dot of the
\* last path component, unless only dots precede it in that component.
splitext(p) ==
    LET sepIndex == rfind(p, "/")
        dotIndex == rfind(p, ".")
    IN IF /\ dotIndex > sepIndex
          /\ \E k \in (sepIndex + 1)..(dotIndex - 1) : p[k] # "."
       THEN <<SubSeq(p, 1, dotIndex - 1), SubSeq(p, dotIndex, Len(p))>>
       ELSE <<p, <<>> >>

\* a < b for strings: Python compares code point by code point
RECURSIVE StrLess(_, _)
StrLess(a, b) ==
    IF a = <<>> THEN b # <<>>
    ELSE IF b = <<>> THEN FALSE
    ELSE IF a[1] = b[1] THEN StrLess(Tail(a), Tail(b))
    ELSE Ord(a[1]) < Ord(b[1])

Range(f) == {f[x] : x \in DOMAIN f}

\* sorted(S) for a set of strings
RECURSIVE SortedStrings(_)
SortedStrings(S) ==
    IF S = {} THEN <<>>
    ELSE LET m == CHOOSE x \in S : \A y \in S \ {x} : StrLess(x, y)
         IN <<m>> \o SortedStrings(S \ {m})

\* sorted(seq, key=...), which is stable: an element comes after those with
\* a smaller key and after the earlier ones with an equal key.
\* less[i][j] is key(seq[i]) < key(seq[j]).
SortBy(seq, less) ==
    LET before(i) == {j \in 1..Len(seq) :
                        \/ less[j][i]
                        \/ (~less[i][j] /\ j < i)}
    IN [k \in 1..Len(seq) |->
           seq[CHOOSE i \in 1..Len(seq) : Cardinality(before(i)) = k - 1]]

\* [seq[i] for i in range(len(seq)) if keep[i]]
SelectWhere(seq, keep) ==
    LET idx == {i \in 1..Len(seq) : keep[i]}
    IN [k \in 1..Cardinality(idx) |->
           seq[CHOOSE i \in idx : Cardinality({j \in idx : j < i}) = k - 1]]

\* the distinct elements of seq in order of first occurrence (dict keys)
RECURSIVE Keys(_)
Keys(seq) ==
    IF seq = <<>> THEN <<>>
    ELSE LET rest == Keys(SubSeq(seq, 1, Len(seq) - 1))
             x == seq[Len(seq)]
         IN IF \E i \in 1..Len(rest) : rest[i] = x THEN rest ELSE rest \o <<x>>

\* collections.Counter over the labels of seq, as its items() in insertion
\* order: <<label, count>>
CounterItems(seq) ==
    LET ks == Keys(seq)
    IN [i \in 1..Len(ks) |->
           <<ks[i], Cardinality({j \in 1..Len(seq) : seq[j] = ks[i]})>>]

\* sorted(counter.items(), key=lambda item: (-item[1], item[0]))
StatLess(a, b) == a[2] > b[2] \/ (a[2] = b[2] /\ StrLess(a[1], b[1]))
Stats(seq) ==
    LET items == CounterItems(seq)
        n == Len(items)
    IN SortBy(items, [i \in 1..n |-> [j \in 1..n |-> StatLess(items[i], items[j])]])

(***************************************************************************)
(* json.loads, for texts made of strings without escapes, integers, the    *)
(* literals null/true/false and arrays of these (arrays may nest).  A      *)
(* value is [t, s, items]; a decode error is [ok |-> FALSE].               *)
(***************************************************************************)
JStr(s) == [t |-> "str", s |-> s, items |-> <<>>]
JInt(s) == [t |-> "int", s |-> s, items |-> <<>>]
JLit(name) == [t |-> name, s |-> <<>>, items |-> <<>>]
JList(items) == [t |-> "list", s |-> <<>>, items |-> items]

JFail == [ok |-> FALSE, v |-> JLit("null"), next |-> 0]
JOk(v, next) == [ok |-> TRUE, v |-> v, next |-> next]

IsDigit(c) == c \in {"0", "7"}

RECURSIVE SkipWs(_, _)
SkipWs(s, i) == IF i <= Len(s) /\ IsSpace(s[i]) THEN SkipWs(s, i + 1) ELSE i

\* the end of the run of digits that starts at i
RECURSIVE DigitsEnd(_, _)
DigitsEnd(s, i) == IF i < Len(s) /\ IsDigit(s[i + 1]) THEN DigitsEnd(s, i + 1) ELSE i

HasAt(s, i, word) ==
    /\ i + Len(word) - 1 <= Len(s)
    /\ SubSeq(s, i, i + Len(word) - 1) = word

RECURSIVE ParseValue(_, _)
RECURSIVE ParseItems(_, _, _)

ParseValue(s, i) ==
    IF i > Len(s) THEN JFail
    ELSE IF s[i] = "\"" THEN
        LET closes == {j \in (i + 1)..Len(s) : s[j] = "\""}
        IN IF closes = {} THEN JFail
           ELSE LET j == CHOOSE x \in closes : \A y \in closes : x <= y
                IN JOk(JStr(SubSeq(s, i + 1, j - 1)), j + 1)
    ELSE IF s[i] = "[" THEN
        LET k == SkipWs(s, i + 1)
        IN IF k <= Len(s) /\ s[k] = "]" THEN JOk(JList(<<>>), k + 1)
           ELSE ParseItems(s, k, <<>>)
    ELSE IF IsDigit(s[i]) THEN
        \* a leading 0 is a number of its own
        LET e == IF s[i] = "0" THEN i ELSE DigitsEnd(s, i)
        IN JOk(JInt(SubSeq(s, i, e)), e + 1)
    ELSE IF HasAt(s, i, <<"n", "u", "l", "l">>) THEN JOk(JLit("null"), i + 4)
    ELSE IF HasAt(s, i, <<"t", "r", "u", "e">>) THEN JOk(JLit("true"), i + 4)
    ELSE IF HasAt(s, i, <<"f", "a", "l", "s", "e">>) THEN JOk(JLit("false"), i + 5)
    ELSE JFail

\* the items of an array from index i on, acc the items parsed so far
ParseItems(s, i, acc) ==
    LET r == ParseValue(s, i)
    IN IF ~r.ok THEN JFail
       ELSE LET k == SkipWs(s, r.next)
            IN IF k > Len(s) THEN JFail
               ELSE IF s[k] = "]" THEN JOk(JList(Append(acc, r.v)), k + 1)
               ELSE IF s[k] = "," THEN ParseItems(s, SkipWs(s, k + 1), Append(acc, r.v))
               ELSE JFail

\* json.loads(s): [ok, v]; ~ok is the JSONDecodeError
json_loads(s) ==
    LET r == ParseValue(s, SkipWs(s, 1))
    IN IF r.ok /\ SkipWs(s, r.next) > Len(s)
       THEN [ok |-> TRUE, v |-> r.v]
       ELSE [ok |-> FALSE, v |-> JLit("null")]

\* ", ".join(parts)
RECURSIVE JoinComma(_)
JoinComma(parts) ==
    IF parts = <<>> THEN <<>>
    ELSE IF Len(parts) = 1 THEN parts[1]
    ELSE parts[1] \o <<",", " ">> \o JoinComma(Tail(parts))

\* repr(v) and str(v) of a decoded value
RECURSIVE PyRepr(_)
PyRepr(v) ==
    IF v.t = "str" THEN
        (IF \E i \in 1..Len(v.s) : v.s[i] = "'"
         THEN <<"\"">> \o v.s \o <<"\"">>
         ELSE <<"'">> \o v.s \o <<"'">>)
    ELSE IF v.t = "int" THEN v.s
    ELSE IF v.t = "null" THEN <<"N", "o", "n", "e">>
    ELSE IF v.t = "true" THEN <<"T", "r", "u", "e">>
    ELSE IF v.t = "false" THEN <<"F", "a", "l", "s", "e">>
    ELSE <<"[">> \o JoinComma([i \in 1..Len(v.items) |-> PyRepr(v.items[i])]) \o <<"]">>

PyStr(v) == IF v.t = "str" THEN v.s ELSE PyRepr(v)

(***************************************************************************)
(* The record store: class Vine.                                           *)
(***************************************************************************)
Vine(id, name, color, sparkling, country, region, grape, sugar, pdf_file, price) ==
    [id |-> id, name |-> name, color |-> color, sparkling |-> sparkling,
     country |-> country, region |-> region, grape |-> grape, sugar |-> sugar,
     pdf_file |-> pdf_file, price |-> price]

\* json.dumps of a list of plain strings
json_dumps(list) ==
    <<"[">> \o JoinComma([i \in 1..Len(list) |-> <<"\"">> \o list[i] \o <<"\"">>])
    \o <<"]">>

\* the column default of Vine.sparkling
sparkling_default == <<"n", "o">>

\* the two rows of upload_test_vines, with the row id the store assigns
wine1(id) ==
    Vine(id,
         <<"[", "cy_T", "cy_E", "cy_S", "cy_T", "cy_O", "cy_V", "cy_O", "cy_E",
      "]", " ", "cy_K", "cy_a", "cy_b", "cy_e", "cy_r", "cy_n", "cy_e", " ",
      "cy_S", "cy_o", "cy_v", "cy_i", "cy_n", "cy_soft", "cy_o", "cy_n">>,
         <<"r", "e", "d">>, sparkling_default, <<"r", "u", "s", "s", "i", "a">>,
         <<"cy_K", "cy_r", "cy_a", "cy_s", "cy_n", "cy_o", "cy_d", "cy_a", "cy_r">>,
         json_dumps(<< <<"C", "a", "b", "e", "r", "n", "e", "t", " ", "S", "a", "u", "v", "i",
      "g", "n", "o", "n">> >>),
         <<"d", "r", "y">>, <<"k", "a", "b", "_", "s", "o", "v", ".", "p", "d", "f">>, None)

wine2(id) ==
    Vine(id,
         <<"[", "cy_T", "cy_E", "cy_S", "cy_T", "cy_O", "cy_V", "cy_O", "cy_E",
      "]", " ", "cy_B", "cy_o", "cy_r", "cy_d", "cy_o", " ", "cy_k", "cy_u",
      "cy_p", "cy_a", "cy_zh">>,
         <<"r", "e", "d">>, sparkling_default, <<"f", "r", "a", "n", "c", "e">>,
         <<"cy_B", "cy_o", "cy_r", "cy_d", "cy_o">>,
         json_dumps(<< <<"C", "a", "b", "e", "r", "n", "e", "t", " ", "S", "a", "u", "v", "i",
      "g", "n", "o", "n">>,
                       <<"M", "e", "r", "l", "o", "t">>,
                       <<"C", "a", "b", "e", "r", "n", "e", "t", " ", "F", "r", "a", "n", "c">> >>),
         <<"d", "r", "y">>, <<"b", "o", "r", "d", "e", "a", "u", "x", ".", "p", "d", "f">>, None)

\* Vine.query.all(): the rows in rowid order
query_all(vs) == vs

\* Vine.query.order_by(Vine.name).all(): by name in code-point order, rows of
\* equal name in rowid order
query_order_by_name(vs) ==
    SortBy(vs, [i \in 1..Len(vs) |-> [j \in 1..Len(vs) |-> StrLess(vs[i].name, vs[j].name)]])

(***************************************************************************)
(* The file system: a directory is [exists, listing]; listing is its       *)
(* entries in the order os.listdir enumerates them, an entry is a regular  *)
(* file or a sub-directory with the files it holds.                        *)
(***************************************************************************)
RegularFile(name) == [name |-> name, isfile |-> TRUE, children |-> {}]
SubDir(name, children) == [name |-> name, isfile |-> FALSE, children |-> children]
NoDirectory == [exists |-> FALSE, listing |-> <<>>]
Directory(listing) == [exists |-> TRUE, listing |-> listing]

\* os.path.isdir(d)
isdir(d) == d.exists

\* os.listdir(d)
listdir(d) == [i \in 1..Len(d.listing) |-> d.listing[i].name]

\* os.path.isfile(os.path.join(d, entry))
isfile(d, entry) ==
    \E i \in 1..Len(d.listing) : d.listing[i].name = entry /\ d.listing[i].isfile

allowed_ext ==
    { <<".", "p", "n", "g">>, <<".", "j", "p", "g">>, <<".", "j", "p", "e", "g">>,
      <<".", "w", "e", "b", "p">>, <<".", "g", "i", "f">>, <<".", "s", "v", "g">> }

\* dict.get(key), None when the key is absent
dict_get(d, key) == IF key \in DOMAIN d THEN d[key] ELSE None

\* mutant of build_bottle_lookup: an earlier entry is kept, a later one dropped
build_bottle_lookup_first_wins(d) ==
    LET entries == IF isdir(d) THEN listdir(d) ELSE <<>>
        kept == SelectSeq(entries, LAMBDA e : lower(splitext(e)[2]) \in allowed_ext)
        key(i) == lower(splitext(kept[i])[1])
    IN [k \in {key(i) : i \in 1..Len(kept)} |->
           kept[CHOOSE i \in 1..Len(kept) :
                   key(i) = k /\ \A j \in 1..(i - 1) : key(j) # k]]

\* _build_bottle_lookup: lookup[base.lower()] = entry for every listed entry
\* with an allowed extension, a later entry replacing an earlier one
build_bottle_lookup(d) ==
    LET entries == IF isdir(d) THEN listdir(d) ELSE <<>>
        kept == SelectSeq(entries, LAMBDA e : lower(splitext(e)[2]) \in allowed_ext)
        key(i) == lower(splitext(kept[i])[1])
    IN [k \in {key(i) : i \in 1..Len(kept)} |->
           kept[CHOOSE i \in 1..Len(kept) :
                   key(i) = k /\ \A j \in (i + 1)..Len(kept) : key(j) # k]]

\* url_for("bottle_image", filename=f), for a name of unreserved characters
url_for_bottle_image(filename) ==
    <<"/", "v", "i", "n", "e", "r", "y", "/", "b", "o", "t", "t", "l", "e",
      "s", "/">> \o filename

(***************************************************************************)
(* GET /winery/ (catalog)                                                  *)
(***************************************************************************)
\* lines 70-73: the grape list of a catalog entry
catalog_grapes(v) ==
    IF Truthy(v.grape)
    THEN LET r == json_loads(v.grape)
         IN IF r.ok THEN r.v ELSE JList(<<JStr(v.grape)>>)
    ELSE JList(<<>>)

\* lines 75-80: the bottle image of a catalog entry
catalog_image_url(v, bottle_lookup) ==
    IF Truthy(v.pdf_file)
    THEN LET base_name == lower(splitext(v.pdf_file)[1])
             bottle_filename == dict_get(bottle_lookup, base_name)
         IN IF Truthy(bottle_filename)
            THEN url_for_bottle_image(bottle_filename)
            ELSE None
    ELSE None

catalog_entry(v, bottle_lookup) ==
    [id |-> v.id, name |-> v.name, color |-> v.color, country |-> v.country,
     region |-> v.region, grape |-> catalog_grapes(v), sugar |-> v.sugar,
     pdf_file |-> v.pdf_file, sparkling |-> v.sparkling, price |-> v.price,
     image_url |-> catalog_image_url(v, bottle_lookup)]

\* the vines_list the template is rendered with
catalog_vines_list(vs, bottles) ==
    LET bottle_lookup == build_bottle_lookup(bottles)
    IN [i \in 1..Len(vs) |-> catalog_entry(vs[i], bottle_lookup)]

(***************************************************************************)
(* GET /status.json (status_json)                                          *)
(***************************************************************************)
\* lines 129-138: the grape names one row adds to grapes_set
status_grapes(v) ==
    IF Truthy(v.grape)
    THEN LET r == json_loads(v.grape)
         IN IF ~r.ok THEN {v.grape}
            ELSE IF r.v.t = "list"
                 THEN {PyStr(r.v.items[i]) : i \in 1..Len(r.v.items)}
            ELSE IF r.v.t = "str" /\ r.v.s # <<>> THEN {r.v.s}
            ELSE {}
    ELSE {}

\* lines 108-156: details, when the query succeeds
status_details(vs, pdfs) ==
    LET rows == 1..Len(vs)
        fs_files == IF isdir(pdfs) THEN Range(listdir(pdfs)) ELSE {}
        db_files == {vs[i].pdf_file : i \in {j \in rows : Truthy(vs[j].pdf_file)}}
    IN [vines_total |-> Len(vs),
        colors |-> Range(CounterItems([i \in rows |-> vs[i].color])),
        sparkling_yes |->
            Cardinality({i \in rows : vs[i].sparkling = <<"y", "e", "s">>}),
        countries_total |->
            Cardinality({vs[i].country : i \in {j \in rows : Truthy(vs[j].country)}}),
        regions_total |->
            Cardinality({vs[i].region : i \in {j \in rows : Truthy(vs[j].region)}}),
        grapes_total |-> Cardinality(UNION {status_grapes(vs[i]) : i \in rows}),
        sugars_present |->
            SortedStrings({vs[i].sugar : i \in {j \in rows : Truthy(vs[j].sugar)}}),
        pdfs_in_dir |-> Cardinality(fs_files),
        pdfs_missing |-> SortedStrings(db_files \ fs_files),
        pdfs_extra |-> SortedStrings(fs_files \ db_files)]

\* lines 99-170: the payload; reachable is whether Vine.query.all() returns
status_payload(env_vercel, reachable, vs, pdfs) ==
    [env |-> IF env_vercel THEN "vercel" ELSE "local",
     db_mode |-> IF env_vercel THEN "ro" ELSE "rw",
     db_connected |-> reachable,
     version |-> "2.1",
     details |-> IF reachable THEN status_details(query_all(vs), pdfs) ELSE <<>>]

(***************************************************************************)
(* GET /scan (scan_resources)                                              *)
(***************************************************************************)
RECURSIVE Flatten(_)
Flatten(seqs) == IF seqs = <<>> THEN <<>> ELSE seqs[1] \o Flatten(Tail(seqs))

dot_pdf == <<".", "p", "d", "f">>

\* mutant of scan_pdf_fs_files: every regular file counts, whatever its type
scan_pdf_fs_files_any_type(pdfs) ==
    IF isdir(pdfs)
    THEN {e \in Range(listdir(pdfs)) : isfile(pdfs, e)}
    ELSE {}

\* lines 182-194
scan_pdf_fs_files(pdfs) ==
    IF isdir(pdfs)
    THEN {e \in Range(listdir(pdfs)) : isfile(pdfs, e) /\ endswith(lower(e), dot_pdf)}
    ELSE {}

scan_pdf_other_files(pdfs) ==
    IF isdir(pdfs)
    THEN SelectSeq(listdir(pdfs),
                   LAMBDA e : isfile(pdfs, e) /\ ~endswith(lower(e), dot_pdf))
    ELSE <<>>

\* lines 203-212: the regular files of the bottle directory, in listing order
scan_bottle_image_entries(bottles) ==
    IF isdir(bottles)
    THEN SelectSeq(listdir(bottles),
                   LAMBDA e : isfile(bottles, e)
                              /\ lower(splitext(e)[2]) \in allowed_ext)
    ELSE <<>>

scan_bottle_other_files(bottles) ==
    IF isdir(bottles)
    THEN SelectSeq(listdir(bottles),
                   LAMBDA e : isfile(bottles, e)
                              /\ lower(splitext(e)[2]) \notin allowed_ext)
    ELSE <<>>

\* lines 282-289: bottle_base_registry's groups of more than one file
scan_duplicate_bottle_entries(bottles) ==
    LET entries == scan_bottle_image_entries(bottles)
        base(e) == lower(splitext(e)[1])
        group(b) == SelectSeq(entries, LAMBDA e : base(e) = b)
        bases == Keys([i \in 1..Len(entries) |-> base(entries[i])])
        dups == SelectSeq(bases, LAMBDA b : Len(group(b)) > 1)
        n == Len(dups)
    IN SortBy([i \in 1..n |->
                  [base |-> dups[i], files |-> SortedStrings(Range(group(dups[i])))]],
              [i \in 1..n |-> [j \in 1..n |-> StrLess(dups[i], dups[j])]])

\* mutant of scan_pdf_name: the reference is not stripped
scan_pdf_name_unstripped(v) == OrElse(v.pdf_file, <<>>)

\* line 232
scan_pdf_name(v) == strip(OrElse(v.pdf_file, <<>>))

\* lines 252-262
scan_grape_values(v) ==
    IF Truthy(v.grape)
    THEN LET r == json_loads(v.grape)
         IN IF ~r.ok THEN <<strip(v.grape)>>
            ELSE IF r.v.t = "list"
                 THEN SelectSeq([i \in 1..Len(r.v.items) |-> strip(PyStr(r.v.items[i]))],
                                LAMBDA g : g # <<>>)
            ELSE IF r.v.t = "str" /\ strip(r.v.s) # <<>> THEN <<strip(r.v.s)>>
            ELSE <<>>
    ELSE <<>>

\* lines 273-280
scan_duplicate_pdfs(vs) ==
    LET pdf_name == [i \in 1..Len(vs) |-> scan_pdf_name(vs[i])]
        linked == {i \in 1..Len(vs) : pdf_name[i] # <<>>}
        names == Keys(SelectWhere(pdf_name, [i \in 1..Len(vs) |-> i \in linked]))
        usage(n) == SelectWhere(vs, [i \in 1..Len(vs) |-> pdf_name[i] = n])
        dups == SelectSeq(names, LAMBDA n : Len(usage(n)) > 1)
        n == Len(dups)
        by_name(rows) ==
            SortBy(rows, [i \in 1..Len(rows) |-> [j \in 1..Len(rows) |->
                            StrLess(lower(OrElse(rows[i].name, <<>>)),
                                    lower(OrElse(rows[j].name, <<>>)))]])
    IN SortBy([i \in 1..n |-> [pdf |-> dups[i], vines |-> by_name(usage(dups[i]))]],
              [i \in 1..n |-> [j \in 1..n |-> StrLess(lower(dups[i]), lower(dups[j]))]])

\* lines 182-420: the template context; vs is the query's result (no rows
\* when it raised) and db_error its error message or None
scan_context(vs, db_error, pdfs, bottles) ==
    LET rows == 1..Len(vs)
        pdf_dir_exists == isdir(pdfs)
        pdf_fs_files == scan_pdf_fs_files(pdfs)
        pdf_other_files == scan_pdf_other_files(pdfs)
        bottle_dir_exists == isdir(bottles)
        bottle_lookup == build_bottle_lookup(bottles)
        bottle_files == IF bottle_dir_exists THEN Range(bottle_lookup) ELSE {}
        bottle_other_files == scan_bottle_other_files(bottles)
        \* per row: pdf_name, base_name, bottle_filename, grape_values
        pdf_name == [i \in rows |-> scan_pdf_name(vs[i])]
        base_name == [i \in rows |-> lower(splitext(pdf_name[i])[1])]
        bottle_filename == [i \in rows |-> dict_get(bottle_lookup, base_name[i])]
        grape_values == [i \in rows |-> scan_grape_values(vs[i])]
        has_pdf == [i \in rows |-> pdf_name[i] # <<>>]
        vines_with_pdf == SelectWhere(vs, has_pdf)
        pdf_names_in_db == {pdf_name[i] : i \in {j \in rows : has_pdf[j]}}
        missing_pdf_field == SelectWhere(vs, [i \in rows |-> ~has_pdf[i]])
        missing_pdf_on_disk ==
            SelectWhere([i \in rows |-> <<vs[i], pdf_name[i]>>],
                        [i \in rows |-> /\ has_pdf[i]
                                        /\ pdf_dir_exists
                                        /\ pdf_name[i] \notin pdf_fs_files])
        missing_bottle_images ==
            SelectWhere([i \in rows |-> <<vs[i], base_name[i]>>],
                        [i \in rows |-> has_pdf[i] /\ ~Truthy(bottle_filename[i])])
        used_bottle_files ==
            {bottle_filename[i] : i \in {j \in rows : has_pdf[j] /\ Truthy(bottle_filename[j])}}
        color_counter == [i \in rows |->
            OrElse(vs[i].color, <<"cy_n", "cy_e", " ", "cy_u", "cy_k", "cy_a", "cy_z", "cy_a", "cy_n">>)]
        sugar_counter == [i \in rows |->
            OrElse(vs[i].sugar, <<"cy_n", "cy_e", " ", "cy_u", "cy_k", "cy_a", "cy_z", "cy_a", "cy_n",
      "cy_o">>)]
        sparkling_counter == [i \in rows |-> lower(OrElse(vs[i].sparkling, <<"n", "o">>))]
        country_counter == [i \in rows |->
            OrElse(vs[i].country, <<"cy_n", "cy_e", " ", "cy_u", "cy_k", "cy_a", "cy_z", "cy_a", "cy_n",
      "cy_a">>)]
        grape_counter == Flatten(grape_values)
        vines_missing_grape == SelectWhere(vs, [i \in rows |-> grape_values[i] = <<>>])
        vines_missing_price ==
            SelectWhere(vs, [i \in rows |-> strip(OrElse(vs[i].price, <<>>)) = <<>>])
        unused_pdf_files ==
            IF pdf_dir_exists THEN SortedStrings(pdf_fs_files \ pdf_names_in_db) ELSE <<>>
        unused_bottle_files ==
            IF bottle_dir_exists THEN SortedStrings(bottle_files \ used_bottle_files) ELSE <<>>
        sparkling_count(S) == Cardinality({i \in rows : sparkling_counter[i] \in S})
        summary ==
            [total_vines |-> Len(vs),
             with_pdf |-> Len(vines_with_pdf),
             unique_pdf |-> Cardinality(pdf_names_in_db),
             pdf_dir_count |-> IF pdf_dir_exists THEN Cardinality(pdf_fs_files) ELSE 0,
             bottle_dir_count |-> IF bottle_dir_exists THEN Cardinality(bottle_files) ELSE 0,
             missing_pdf_field |-> Len(missing_pdf_field),
             missing_pdf_disk |-> Len(missing_pdf_on_disk),
             missing_bottles |-> Len(missing_bottle_images),
             unused_pdf |-> Len(unused_pdf_files),
             unused_bottles |-> Len(unused_bottle_files),
             missing_grape |-> Len(vines_missing_grape),
             missing_price |-> Len(vines_missing_price)]
        directories ==
            [pdf |-> [exists |-> pdf_dir_exists,
                      path |-> <<"p", "d", "f", "s">>,
                      count |-> Cardinality(pdf_fs_files),
                      other |-> SortedStrings(Range(pdf_other_files))],
             bottles |-> [exists |-> bottle_dir_exists,
                          path |-> <<"b", "o", "t", "t", "l", "e", "s">>,
                          count |-> Cardinality(bottle_files),
                          other |-> SortedStrings(Range(bottle_other_files))]]
        dir_metric(dir) ==
            IF dir.exists
            THEN [value |-> dir.count, caption |-> dir.path]
            ELSE [value |-> <<"emdash">>,
                  caption |-> <<"cy_n", "cy_e", "cy_t", " ", "cy_p", "cy_a", "cy_p", "cy_k", "cy_i">>]
    IN [summary |-> summary,
        directories |-> directories,
        missing_pdf_field |-> missing_pdf_field,
        missing_pdf_on_disk |-> missing_pdf_on_disk,
        missing_bottle_images |-> missing_bottle_images,
        unused_pdf_files |-> unused_pdf_files,
        unused_bottle_files |-> unused_bottle_files,
        duplicate_pdfs |-> scan_duplicate_pdfs(vs),
        duplicate_bottle_entries |-> scan_duplicate_bottle_entries(bottles),
        color_stats |-> Stats(color_counter),
        sugar_stats |-> Stats(sugar_counter),
        sparkling_stats |->
            [yes |-> sparkling_count({ <<"y", "e", "s">> }),
             no |-> sparkling_count({ <<"n", "o">> }),
             other |-> Len(vs) - sparkling_count({ <<"y", "e", "s">>, <<"n", "o">> })],
        country_stats |-> Stats(country_counter),
        grape_stats |-> Stats(grape_counter),
        vines_missing_grape |-> vines_missing_grape,
        vines_missing_price |-> vines_missing_price,
        db_error |-> db_error,
        \* the values of the metric tiles, in the order of the source
        primary_metrics |->
            <<[value |-> summary.total_vines], [value |-> summary.with_pdf],
              [value |-> summary.unique_pdf],
              dir_metric(directories.pdf), dir_metric(directories.bottles)>>,
        quality_metrics |->
            <<summary.missing_pdf_field, summary.missing_pdf_disk,
              summary.missing_bottles, summary.unused_pdf, summary.unused_bottles,
              summary.missing_grape, summary.missing_price>>]

(***************************************************************************)
(* send_from_directory and the asset routes                                *)
(***************************************************************************)
\* str.split("/")
RECURSIVE SplitPath(_)
SplitPath(p) ==
    LET i == IF \E k \in 1..Len(p) : p[k] = "/"
             THEN CHOOSE k \in 1..Len(p) : p[k] = "/" /\ \A j \in 1..(k - 1) : p[j] # "/"
             ELSE 0
    IN IF i = 0 THEN <<p>>
       ELSE <<SubSeq(p, 1, i - 1)>> \o SplitPath(SubSeq(p, i + 1, Len(p)))

dotdot == <<".", ".">>

\* posixpath.normpath of a relative path, as its components: "" and "." are
\* dropped, ".." removes the component before it, or stays when there is none
RECURSIVE NormComponents(_, _)
NormComponents(comps, acc) ==
    IF comps = <<>> THEN acc
    ELSE LET c == comps[1]
             next == IF c = <<>> \/ c = <<".">> THEN acc
                     ELSE IF c = dotdot /\ acc # <<>> /\ acc[Len(acc)] # dotdot
                          THEN SubSeq(acc, 1, Len(acc) - 1)
                     ELSE Append(acc, c)
         IN NormComponents(Tail(comps), next)

\* werkzeug's safe_join(directory, filename): the components of the joined
\* path below directory; ok is FALSE when it returns None
safe_join(filename) ==
    LET comps == NormComponents(SplitPath(filename), <<>>)
    IN [ok |-> ~(  (filename # <<>> /\ filename[1] = "/")
                \/ (comps # <<>> /\ comps[1] = dotdot)),
        comps |-> comps]

\* os.path.isfile of a path of components below directory d
isfile_at(d, comps) ==
    \/ Len(comps) = 1 /\ isfile(d, comps[1])
    \/ /\ Len(comps) = 2
       /\ \E i \in 1..Len(d.listing) :
            /\ d.listing[i].name = comps[1]
            /\ ~d.listing[i].isfile
            /\ comps[2] \in d.listing[i].children

NotFound == [code |-> 404, body |-> "Not Found"]
InternalServerError == [code |-> 500, body |-> "Internal Server Error"]
Ok(body) == [code |-> 200, body |-> body]

\* send_from_directory(directory, filename): the file is named by the
\* directory and its path below it
send_from_directory(dirname, d, filename) ==
    LET j == safe_join(filename)
    IN IF j.ok /\ isdir(d) /\ isfile_at(d, j.comps)
       THEN Ok([file |-> [dir |-> dirname, path |-> j.comps]])
       ELSE NotFound

\* mutant of bottle_image: the name is not looked up in the mapping
bottle_image_unchecked(bottles, filename) ==
    IF lower(splitext(filename)[2]) \notin allowed_ext THEN NotFound
    ELSE send_from_directory("bottles", bottles, filename)

\* lines 481-493
bottle_image(bottles, filename) ==
    LET bottle_lookup == build_bottle_lookup(bottles)
        valid_files == Range(bottle_lookup)
        ext == splitext(filename)[2]
    IN IF lower(ext) \notin allowed_ext THEN NotFound
       ELSE IF filename \notin valid_files THEN NotFound
       ELSE send_from_directory("bottles", bottles, filename)

\* lines 475-478
pdfs(pdfs_d, filename) == send_from_directory("pdfs", pdfs_d, filename)

\* lines 449-469: the data the QR code encodes
pdf_qr(filename) ==
    IF filename = <<"c", "a", "t", "a", "l", "o", "g", "-", "p", "a", "g", "e">>
    THEN Ok([qr |-> <<"h", "t", "t", "p", "s", ":", "/", "/", "v", "i", "n", "e", "l", "i",
      "n", "k", ".", "l", "a", "v", "r", "o", "o", "v", "i", "c", "h", ".",
      "f", "u", "n", "/">>])
    ELSE Ok([qr |-> <<"h", "t", "t", "p", "s", ":", "/", "/", "v", "i", "n", "e", "l", "i",
      "n", "k", ".", "l", "a", "v", "r", "o", "o", "v", "i", "c", "h", ".",
      "f", "u", "n", "/", "v", "i", "n", "e", "r", "y", "/">>
                    \o filename])

\* lines 471-473
pdf_view(filename) == Ok([template |-> "viewer.html", filename |-> filename])

\* lines 57-96; reachable is whether Vine.query.all() returns
JEmptyDict == [t |-> "dict", s |-> <<>>, items |-> <<>>]

catalog(reachable, vs, bottles, applyed_filters) ==
    LET f == IF Truthy(applyed_filters) THEN json_loads(applyed_filters)
             ELSE [ok |-> TRUE, v |-> JEmptyDict]
    IN IF ~f.ok \/ ~reachable THEN InternalServerError
       ELSE Ok([vines |-> catalog_vines_list(query_all(vs), bottles),
                applyed_filters |-> f.v])

\* str(exc) of the failed query (line 179)
db_error_message == <<"unable to open database file">>

\* mutant of scan_resources: the failed query is not caught
scan_resources_uncaught(reachable, vs, pdfs_d, bottles) ==
    IF reachable
    THEN Ok(scan_context(query_order_by_name(vs), None, pdfs_d, bottles))
    ELSE InternalServerError

\* lines 173-180, 422: a failed query leaves no rows and its message
scan_resources(reachable, vs, pdfs_d, bottles) ==
    Ok(scan_context(IF reachable THEN query_order_by_name(vs) ELSE <<>>,
                    IF reachable THEN None ELSE db_error_message,
                    pdfs_d, bottles))

\* mutant of upload_test_vines_commits: the store is writable in either mode
upload_test_vines_commits_any_mode(env_vercel, reachable) == reachable

\* lines 445-446: the commit raises, and the rows stay, when the store is
\* opened read-only (line 16) or cannot be opened
upload_test_vines_commits(env_vercel, reachable) == ~env_vercel /\ reachable

\* lines 426-445: the rows after the commit
upload_test_vines_rows(vs) == vs \o <<wine1(Len(vs) + 1), wine2(Len(vs) + 2)>>

(***************************************************************************)
(* The requests the model sends and the states it starts from.             *)
(***************************************************************************)
kab_sov_pdf == <<"k", "a", "b", "_", "s", "o", "v", ".", "p", "d", "f">>
kab_sov_png == <<"k", "a", "b", "_", "s", "o", "v", ".", "p", "n", "g">>
KAB_SOV_JPG == <<"K", "A", "B", "_", "S", "O", "V", ".", "J", "P", "G">>
kab_sov_gif == <<"k", "a", "b", "_", "s", "o", "v", ".", "g", "i", "f">>
notes_txt == <<"n", "o", "t", "e", "s", ".", "t", "x", "t">>
Kab_Sov_webp == <<"K", "a", "b", "_", "S", "o", "v", ".", "w", "e", "b", "p">>
bordeaux_PDF == <<"b", "o", "r", "d", "e", "a", "u", "x", ".", "P", "D", "F">>
archive_pdf == <<"a", "r", "c", "h", "i", "v", "e", ".", "p", "d", "f">>

\* entries the bottle directory may hold: two images of one stem, a
\* sub-directory named like an image of that stem, a file that is no image
BottleEntries ==
    {RegularFile(kab_sov_png), RegularFile(KAB_SOV_JPG),
     SubDir(kab_sov_gif, {kab_sov_png}), RegularFile(notes_txt)}

\* entries the description directory may hold: a PDF, an image card, a PDF
\* with an upper-case extension, a sub-directory named like a PDF
PdfEntries ==
    {RegularFile(kab_sov_pdf), RegularFile(Kab_Sov_webp),
     RegularFile(bordeaux_PDF), SubDir(archive_pdf, {})}

\* the listings of at most n distinct entries of U, in every order
Listings(U, n) ==
    UNION {{s \in [1..k -> U] : \A i, j \in 1..k : i # j => s[i] # s[j]} : k \in 0..n}

Directories(U, n) == {NoDirectory} \cup {Directory(l) : l \in Listings(U, n)}

DefaultPdfs == Directory(<<RegularFile(kab_sov_pdf)>>)
DefaultBottles == Directory(<<RegularFile(kab_sov_png)>>)

\* rows written before the seed routine existed (without their id): a
\* padded reference and a bare grape string; an image card and a grape
\* field that is a JSON string; a blank reference; an empty reference
LegacyVines ==
    {[name |-> <<"M", "e", "r", "l", "o", "t">>, color |-> <<"w", "h", "i", "t", "e">>, sparkling |-> <<"Y", "e", "s">>,
      country |-> <<"f", "r", "a", "n", "c", "e">>, region |-> None, grape |-> <<"M", "e", "r", "l", "o", "t">>,
      sugar |-> <<"s", "w", "e", "e", "t">>, pdf_file |-> <<" ", "k", "a", "b", "_", "s", "o", "v", ".", "p", "d", "f", " ">>, price |-> <<"7", "0", "0">>],
     [name |-> <<"m", "e", "r", "l", "o", "t">>, color |-> <<"r", "e", "d">>, sparkling |-> <<"y", "e", "s">>,
      country |-> <<"f", "r", "a", "n", "c", "e">>, region |-> <<"cy_B", "cy_o", "cy_r", "cy_d", "cy_o">>, grape |-> <<"\"", "M", "e", "r", "l", "o", "t", "\"">>,
      sugar |-> <<"d", "r", "y">>, pdf_file |-> <<"K", "a", "b", "_", "S", "o", "v", ".", "w", "e", "b", "p">>, price |-> None],
     [name |-> <<"C", "a", "v", "a">>, color |-> <<"w", "h", "i", "t", "e">>, sparkling |-> <<"n", "o">>,
      country |-> <<"r", "u", "s", "s", "i", "a">>, region |-> <<>>, grape |-> None,
      sugar |-> <<"d", "r", "y">>, pdf_file |-> <<" ">>, price |-> <<" ">>],
     [name |-> <<"C", "a", "v", "a">>, color |-> <<"r", "e", "d">>, sparkling |-> <<"n", "o">>,
      country |-> <<"r", "u", "s", "s", "i", "a">>, region |-> None, grape |-> <<"[", "\"", " ", "\"", ",", " ", "7", "]">>,
      sugar |-> <<"s", "w", "e", "e", "t">>, pdf_file |-> <<>>, price |-> <<>>]}

WithId(row, id) ==
    Vine(id, row.name, row.color, row.sparkling, row.country, row.region,
         row.grape, row.sugar, row.pdf_file, row.price)

InitStores ==
    UNION {{[i \in 1..k |-> WithId(s[i], i)] : s \in [1..k -> LegacyVines]} :
             k \in 0..MaxInitVines}

FilterArgs == {<<>>, <<"[", "]">>, <<"[">>}
BottleRequests ==
    {kab_sov_png, KAB_SOV_JPG, kab_sov_gif, notes_txt,
     kab_sov_gif \o <<"/">> \o kab_sov_png}
PdfRequests == {kab_sov_pdf, dotdot}
QrRequests == {<<"c", "a", "t", "a", "l", "o", "g", "-", "p", "a", "g", "e">>, kab_sov_pdf}
ViewRequests == {kab_sov_pdf}

NoResponse == [op |-> "none", arg |-> <<>>, code |-> 0, body |-> <<>>]
Respond(op, arg, r) == [op |-> op, arg |-> arg, code |-> r.code, body |-> r.body]

\* The start states: a store of legacy rows and
\*   - any bottle directory, beside the seed's PDF, or
\*   - any description directory, beside the seed's bottle image, or
\*   - either store mode, the store reachable or not.
InitBottles ==
    /\ VERCEL = FALSE /\ db_reachable = TRUE
    /\ pdfs_dir = DefaultPdfs
    /\ bottles_dir \in Directories(BottleEntries, MaxBottleEntries)

InitPdfs ==
    /\ VERCEL = FALSE /\ db_reachable = TRUE
    /\ pdfs_dir \in Directories(PdfEntries, MaxPdfEntries)
    /\ bottles_dir = DefaultBottles

InitEnv ==
    /\ VERCEL \in BOOLEAN /\ db_reachable \in BOOLEAN
    /\ pdfs_dir \in {NoDirectory, Directory(<<RegularFile(Kab_Sov_webp), RegularFile(kab_sov_pdf)>>)}
    /\ bottles_dir = DefaultBottles

Init ==
    /\ vines \in InitStores
    /\ response = NoResponse
    /\ (InitBottles \/ InitPdfs \/ InitEnv)

Welcome ==
    /\ response' = Respond("welcome", <<>>, Ok([template |-> "welcome.html"]))
    /\ UNCHANGED <<VERCEL, db_reachable, vines, pdfs_dir, bottles_dir>>

Catalog ==
    \E f \in FilterArgs :
        /\ response' = Respond("catalog", f, catalog(db_reachable, vines, bottles_dir, f))
        /\ UNCHANGED <<VERCEL, db_reachable, vines, pdfs_dir, bottles_dir>>

StatusJson ==
    /\ response' = Respond("status_json", <<>>,
                           Ok(status_payload(VERCEL, db_reachable, vines, pdfs_dir)))
    /\ UNCHANGED <<VERCEL, db_reachable, vines, pdfs_dir, bottles_dir>>

ScanResources ==
    /\ response' = Respond("scan_resources", <<>>,
                           scan_resources(db_reachable, vines, pdfs_dir, bottles_dir))
    /\ UNCHANGED <<VERCEL, db_reachable, vines, pdfs_dir, bottles_dir>>

UploadTestVines ==
    /\ Len(vines) + 2 <= MaxVines
    /\ IF upload_test_vines_commits(VERCEL, db_reachable)
       THEN /\ vines' = upload_test_vines_rows(vines)
            /\ response' = Respond("upload_test_vines", <<>>,
                                   Ok("Test vines uploaded successfully!"))
       ELSE /\ vines' = vines
            /\ response' = Respond("upload_test_vines", <<>>, InternalServerError)
    /\ UNCHANGED <<VERCEL, db_reachable, pdfs_dir, bottles_dir>>

PdfQr ==
    \E filename \in QrRequests :
        /\ response' = Respond("pdf_qr", filename, pdf_qr(filename))
        /\ UNCHANGED <<VERCEL, db_reachable, vines, pdfs_dir, bottles_dir>>

PdfView ==
    \E filename \in ViewRequests :
        /\ response' = Respond("pdf_view", filename, pdf_view(filename))
        /\ UNCHANGED <<VERCEL, db_reachable, vines, pdfs_dir, bottles_dir>>

Pdfs ==
    \E filename \in PdfRequests :
        /\ response' = Respond("pdfs", filename, pdfs(pdfs_dir, filename))
        /\ UNCHANGED <<VERCEL, db_reachable, vines, pdfs_dir, bottles_dir>>

BottleImage ==
    \E filename \in BottleRequests :
        /\ response' = Respond("bottle_image", filename, bottle_image(bottles_dir, filename))
        /\ UNCHANGED <<VERCEL, db_reachable, vines, pdfs_dir, bottles_dir>>

Next ==
    \/ Welcome
    \/ Catalog
    \/ StatusJson
    \/ ScanResources
    \/ UploadTestVines
    \/ PdfQr
    \/ PdfView
    \/ Pdfs
    \/ BottleImage

Spec == Init /\ [][Next]_vars

(***************************************************************************)
(* The vocabulary of the properties.                                       *)
(***************************************************************************)
\* the stem of a file name, lower-cased: the key that joins a row to a bottle
Stem(name) == lower(splitext(name)[1])

IsBlank(s) == strip(s) = <<>>

\* the names of the regular files of a directory
RegularFileNames(d) ==
    IF d.exists THEN {d.listing[i].name : i \in {j \in 1..Len(d.listing) : d.listing[j].isfile}}
    ELSE {}

\* the names of all entries of a directory, sub-directories included
EntryNames(d) ==
    IF d.exists THEN {d.listing[i].name : i \in 1..Len(d.listing)} ELSE {}

HasAllowedExt(name) == lower(splitext(name)[2]) \in allowed_ext

\* the bottle images: regular files of the bottle directory with an allowed
\* extension
BottleImageFiles == {f \in RegularFileNames(bottles_dir) : HasAllowedExt(f)}

\* the entries of the bottle directory with an allowed extension, of any kind
BottleImageEntries == {f \in EntryNames(bottles_dir) : HasAllowedExt(f)}

\* the regular files of the description directory named *.pdf, in any case
PdfFileNames == {f \in RegularFileNames(pdfs_dir) : endswith(lower(f), dot_pdf)}

\* the entry of S that the directory lists last
LastListed(d, S) ==
    d.listing[CHOOSE i \in 1..Len(d.listing) :
                 /\ d.listing[i].name \in S
                 /\ \A j \in (i + 1)..Len(d.listing) : d.listing[j].name \notin S].name

\* the rows a request reads: none when the store cannot be opened
ReadableRows == IF db_reachable THEN {vines[i] : i \in 1..Len(vines)} ELSE {}

CatalogAnswered == response.op = "catalog" /\ response.code = 200
ScanAnswered == response.op = "scan_resources" /\ response.code = 200

\* the ids of the rows /scan lists in missing_pdf_on_disk
ScanMissingIds ==
    {response.body.missing_pdf_on_disk[i][1].id :
        i \in 1..Len(response.body.missing_pdf_on_disk)}

\* the files of a set that at least one row refers to
ReferencedOnDisk(files) ==
    {f \in files : \E v \in ReadableRows : strip(v.pdf_file) = f}

\* the orders in which a directory may enumerate the entries it holds
Reorderings(d) ==
    IF d.exists
    THEN {Directory(l) :
            l \in {s \in [1..Len(d.listing) -> Range(d.listing)] :
                     \A i, j \in 1..Len(d.listing) : i # j => s[i] # s[j]}}
    ELSE {d}

(***************************************************************************)
(* C1                                                                      *)
(***************************************************************************)
\* C1, as stated: a catalog entry carries a bottle image URL if and only if
\* its description asset is non-blank and its lower-cased stem is the stem
\* of exactly one bottle image file, and the URL names that file; the image
\* is None for every other row.
C1_AsStated ==
    CatalogAnswered =>
        \A i \in 1..Len(response.body.vines) :
            LET e == response.body.vines[i]
                matches == {f \in BottleImageFiles : Stem(f) = Stem(e.pdf_file)}
            IN IF ~IsBlank(e.pdf_file) /\ Cardinality(matches) = 1
               THEN e.image_url = url_for_bottle_image(CHOOSE f \in matches : TRUE)
               ELSE e.image_url = None

\* C1, amended: a catalog entry carries a bottle image URL if and only if
\* its description asset is non-empty and its lower-cased stem is the stem
\* of at least one allowed-extension entry of the bottle directory; the URL
\* names the entry of that stem the directory lists last.
C1_CatalogImage ==
    CatalogAnswered =>
        \A i \in 1..Len(response.body.vines) :
            LET e == response.body.vines[i]
                matches == {f \in BottleImageEntries : Stem(f) = Stem(e.pdf_file)}
            IN IF e.pdf_file # <<>> /\ matches # {}
               THEN e.image_url = url_for_bottle_image(LastListed(bottles_dir, matches))
               ELSE e.image_url = None

\* a catalog listing in which a row has an image although two bottle images
\* share its stem
C1_Witness ==
    /\ CatalogAnswered
    /\ \E i \in 1..Len(response.body.vines) :
         /\ response.body.vines[i].image_url # None
         /\ Cardinality({f \in BottleImageFiles :
                           Stem(f) = Stem(response.body.vines[i].pdf_file)}) >= 2

(***************************************************************************)
(* C2                                                                      *)
(***************************************************************************)
\* C2, as stated: with the description directory present, a row is in
\* missing_pdf_on_disk if and only if its reference is non-blank and no file
\* of that name, of whatever type, is in the directory; with the directory
\* absent the list is empty.
C2_AsStated ==
    ScanAnswered =>
        IF isdir(pdfs_dir)
        THEN /\ ScanMissingIds \subseteq {v.id : v \in ReadableRows}
             /\ \A v \in ReadableRows :
                  v.id \in ScanMissingIds <=>
                      /\ ~IsBlank(v.pdf_file)
                      /\ strip(v.pdf_file) \notin RegularFileNames(pdfs_dir)
        ELSE response.body.missing_pdf_on_disk = <<>>

\* C2, amended: with the description directory present, a row is in
\* missing_pdf_on_disk if and only if its reference is non-blank and no
\* regular file named *.pdf (in any letter case) has the stripped reference
\* as its name; with the directory absent the list is empty.
C2_MissingOnDisk ==
    ScanAnswered =>
        IF isdir(pdfs_dir)
        THEN /\ ScanMissingIds \subseteq {v.id : v \in ReadableRows}
             /\ \A v \in ReadableRows :
                  v.id \in ScanMissingIds <=>
                      /\ ~IsBlank(v.pdf_file)
                      /\ strip(v.pdf_file) \notin PdfFileNames
        ELSE response.body.missing_pdf_on_disk = <<>>

\* a report that lists as missing a row whose image card is in the directory
C2_Witness ==
    /\ ScanAnswered
    /\ isdir(pdfs_dir)
    /\ \E v \in ReadableRows :
         /\ v.id \in ScanMissingIds
         /\ strip(v.pdf_file) \in RegularFileNames(pdfs_dir)

(***************************************************************************)
(* C3                                                                      *)
(***************************************************************************)
\* C3, as stated: with the description directory present, unused_pdf_files
\* and the files on disk that a row refers to are disjoint, and together
\* they are all the files of the directory.
C3_AsStated ==
    (ScanAnswered /\ isdir(pdfs_dir)) =>
        LET all == RegularFileNames(pdfs_dir)
            unused == Range(response.body.unused_pdf_files)
        IN /\ unused \cap ReferencedOnDisk(all) = {}
           /\ unused \cup ReferencedOnDisk(all) = all

\* C3, amended: with the description directory present, unused_pdf_files
\* and the *.pdf files on disk that a row refers to are disjoint, and
\* together they are all the regular files of the directory named *.pdf (in
\* any letter case); a file of another type is in neither.
C3_UnusedPartition ==
    (ScanAnswered /\ isdir(pdfs_dir)) =>
        LET unused == Range(response.body.unused_pdf_files)
        IN /\ unused \cap ReferencedOnDisk(PdfFileNames) = {}
           /\ unused \cup ReferencedOnDisk(PdfFileNames) = PdfFileNames
           /\ Len(response.body.unused_pdf_files) = Cardinality(unused)

\* a report over a directory with a PDF that a row refers to and one that
\* none refers to
C3_Witness ==
    /\ ScanAnswered
    /\ isdir(pdfs_dir)
    /\ response.body.unused_pdf_files # <<>>
    /\ ReferencedOnDisk(PdfFileNames) # {}

(***************************************************************************)
(* C4                                                                      *)
(***************************************************************************)
\* C4, as stated: whenever two or more bottle image files share a stem,
\* duplicate_bottle_entries has exactly one group for that stem, listing
\* all of them, and the mapping of the Asset Locator holds one of them under
\* that stem; a stem of a single file has no group.
C4_AsStated ==
    ScanAnswered =>
        LET dups == response.body.duplicate_bottle_entries
            group(s) == {f \in BottleImageFiles : Stem(f) = s}
            bottle_lookup == build_bottle_lookup(bottles_dir)
        IN /\ \A i \in 1..Len(dups) : Cardinality(group(dups[i].base)) >= 2
           /\ \A s \in {Stem(f) : f \in BottleImageFiles} :
                Cardinality(group(s)) >= 2 =>
                    /\ Cardinality({i \in 1..Len(dups) : dups[i].base = s}) = 1
                    /\ \A i \in 1..Len(dups) :
                         dups[i].base = s => Range(dups[i].files) = group(s)
                    /\ s \in DOMAIN bottle_lookup
                    /\ bottle_lookup[s] \in group(s)

(***************************************************************************)
(* C5                                                                      *)
(***************************************************************************)
\* C5, as stated: the report of /scan does not depend on the order in which
\* the two directories enumerate their entries.
C5_AsStated ==
    ScanAnswered =>
        \A p \in Reorderings(pdfs_dir), b \in Reorderings(bottles_dir) :
            scan_resources(db_reachable, vines, p, b).body = response.body

(***************************************************************************)
(* C6                                                                      *)
(***************************************************************************)
\* C6: with the store unreachable, /scan answers with a report whose
\* db_error is the error message and whose row-derived lists and counts are
\* those of no rows (every PDF and every mapped bottle image is unused), and
\* /status.json answers with db_connected = FALSE.
C6_StoreUnreachable ==
    ~db_reachable =>
        /\ response.op = "scan_resources" =>
             /\ response.code = 200
             /\ response.body.db_error = db_error_message
             /\ response.body.summary.total_vines = 0
             /\ response.body.summary.with_pdf = 0
             /\ response.body.summary.unique_pdf = 0
             /\ response.body.summary.missing_pdf_field = 0
             /\ response.body.summary.missing_pdf_disk = 0
             /\ response.body.summary.missing_bottles = 0
             /\ response.body.summary.missing_grape = 0
             /\ response.body.summary.missing_price = 0
             /\ response.body.missing_pdf_field = <<>>
             /\ response.body.missing_pdf_on_disk = <<>>
             /\ response.body.missing_bottle_images = <<>>
             /\ response.body.duplicate_pdfs = <<>>
             /\ response.body.vines_missing_grape = <<>>
             /\ response.body.vines_missing_price = <<>>
             /\ response.body.color_stats = <<>>
             /\ response.body.sugar_stats = <<>>
             /\ response.body.country_stats = <<>>
             /\ response.body.grape_stats = <<>>
             /\ response.body.sparkling_stats = [yes |-> 0, no |-> 0, other |-> 0]
             /\ Range(response.body.unused_pdf_files) = PdfFileNames
             /\ Range(response.body.unused_bottle_files)
                    = Range(build_bottle_lookup(bottles_dir))
        /\ response.op = "status_json" =>
             /\ response.code = 200
             /\ response.body.db_connected = FALSE

\* a report made while the store was unreachable, over a directory with a PDF
C6_Witness ==
    /\ ~db_reachable
    /\ ScanAnswered
    /\ response.body.db_error = db_error_message
    /\ response.body.unused_pdf_files # <<>>

(***************************************************************************)
(* C7                                                                      *)
(***************************************************************************)
\* C7: the bottle-image endpoint answers 200 or 404; it streams a file only
\* if the requested name is a value of the mapping built from the bottle
\* directory, an allowed-extension entry directly in that directory, and
\* then the file is that entry of the bottle directory.
C7_BottleImage ==
    response.op = "bottle_image" =>
        /\ response.code \in {200, 404}
        /\ response.code = 200 =>
             /\ response.arg \in Range(build_bottle_lookup(bottles_dir))
             /\ response.arg \in BottleImageEntries
             /\ \A k \in 1..Len(response.arg) : response.arg[k] # "/"
             /\ response.body.file = [dir |-> "bottles", path |-> <<response.arg>>]

\* a bottle image was streamed
C7_Witness ==
    /\ response.op = "bottle_image"
    /\ response.code = 200
    /\ Cardinality(BottleImageFiles) >= 2

(***************************************************************************)
(* C8                                                                      *)
(***************************************************************************)
\* C8: the rows change only in a step of the seed routine taken in
\* read-write mode, no step changes either asset directory, and in
\* read-only mode no step changes the rows.
C8_OnlySeedWrites ==
    [][/\ vines' # vines => (response'.op = "upload_test_vines" /\ ~VERCEL)
       /\ VERCEL => vines' = vines
       /\ pdfs_dir' = pdfs_dir
       /\ bottles_dir' = bottles_dir]_vars

\* the seed routine was requested in read-only mode, with the store reachable
C8_Witness ==
    /\ VERCEL
    /\ db_reachable
    /\ response.op = "upload_test_vines"
    /\ response.code = 500

(***************************************************************************)
(* C9                                                                      *)
(***************************************************************************)
\* C9, as stated: the catalog does not fail on a grape field, and the grape
\* value of every entry is a list: the decoded list when the field holds a
\* serialized list, and the one-element list of the raw string when the
\* field holds anything else (a row without a grape field has no raw string
\* and is left out).
C9_AsStated ==
    /\ (response.op = "catalog" /\ db_reachable /\ response.arg = <<>>) =>
            response.code = 200
    /\ CatalogAnswered =>
        \A i \in 1..Len(response.body.vines) :
            LET e == response.body.vines[i]
                raw == vines[i].grape
                decoded == json_loads(raw)
            IN /\ e.grape.t = "list"
               /\ Truthy(raw) =>
                    IF decoded.ok /\ decoded.v.t = "list"
                    THEN e.grape = decoded.v
                    ELSE e.grape = JList(<<JStr(raw)>>)

(***************************************************************************)
(* C10                                                                     *)
(***************************************************************************)
\* C10, as stated: the names /status.json lists in pdfs_missing are the
\* description assets of the rows /scan lists in missing_pdf_on_disk, and
\* its pdfs_extra is /scan's unused_pdf_files.
C10_AsStated ==
    (ScanAnswered /\ db_reachable) =>
        LET status == status_payload(VERCEL, db_reachable, vines, pdfs_dir)
        IN /\ Range(status.details.pdfs_missing)
                = {v.pdf_file : v \in {w \in ReadableRows : w.id \in ScanMissingIds}}
           /\ status.details.pdfs_extra = response.body.unused_pdf_files

====
